---- MODULE Spec2Model ----
(***************************************************************************)
(* Model of pythie_serving/utils.py: the numpy <-> TensorProto type        *)
(* registry, make_tensor_proto, make_ndarray_from_tensor and parse_sample. *)
(*                                                                         *)
(* A numeric numpy array is [dtype, shape, elems] where elems is the       *)
(* row-major sequence of its elements and every element is the sequence of *)
(* bytes (little-endian, as on the build's platform) it occupies in        *)
(* memory.  Elements of string/object arrays are Python objects            *)
(* (PyBytes, PyStr, PyInt).                                                *)
(* A call returns [ok |-> TRUE, val |-> v] or [ok |-> FALSE, err |-> e,    *)
(* ...] for a raised exception of class e.                                 *)
(***************************************************************************)
EXTENDS Integers, Sequences, FiniteSets, TLC

\* pc: position of the caller; input: the call's arguments; first: what the
\* first call returned; second: what the call applied to that result returned
VARIABLES pc, input, first, second

vars == <<pc, input, first, second>>

None == [none |-> TRUE]

Ok(v) == [ok |-> TRUE, val |-> v]

Raise(e, m) == [ok |-> FALSE, err |-> e, msg |-> m]

----------------------------------------------------------------------------
(* Bits and bytes *)

RECURSIVE Pow2(_)
Pow2(n) == IF n = 0 THEN 1 ELSE 2 * Pow2(n - 1)

\* bit k (0 = least significant) of the natural number v
BitOf(v, k) == (v \div Pow2(k)) % 2

\* the bits of a byte string, least significant first (little-endian memory)
BitsOf(bytes) == [k \in 1..(8 * Len(bytes)) |->
                    BitOf(bytes[((k - 1) \div 8) + 1], (k - 1) % 8)]

RECURSIVE BitsToNat(_)
BitsToNat(bits) == IF Len(bits) = 0 THEN 0
                   ELSE bits[1] + 2 * BitsToNat(Tail(bits))

BitsToBytes(bits) == [i \in 1..(Len(bits) \div 8) |->
                        BitsToNat(SubSeq(bits, 8 * (i - 1) + 1, 8 * i))]

\* the low n bits of the natural number v, least significant first
NatToBits(v, n) == [k \in 1..n |-> BitOf(v, k - 1)]

ZeroBits(n) == [k \in 1..n |-> 0]

AnySet(bits) == \E k \in 1..Len(bits) : bits[k] = 1

Reverse(s) == [i \in 1..Len(s) |-> s[Len(s) + 1 - i]]

RECURSIVE Concat(_)
Concat(ss) == IF Len(ss) = 0 THEN <<>> ELSE Head(ss) \o Concat(Tail(ss))

RECURSIVE Prod(_)
Prod(s) == IF Len(s) = 0 THEN 1 ELSE Head(s) * Prod(Tail(s))

\* two's complement little-endian bytes of the integer v, -2^31 <= v < 2^31,
\* in w bytes (w >= 4 sign-extends)
IntToBytes(v, w) ==
    [i \in 1..w |-> IF i <= 3 THEN (v \div Pow2(8 * (i - 1))) % 256
                    ELSE IF i = 4 THEN (v \div Pow2(24)) % 256
                    ELSE IF v < 0 THEN 255 ELSE 0]

\* sign extension of a two's complement integer to w bytes
SignExtend(bytes, w) ==
    [i \in 1..w |-> IF i <= Len(bytes) THEN bytes[i]
                    ELSE IF bytes[Len(bytes)] >= 128 THEN 255 ELSE 0]

----------------------------------------------------------------------------
(* IEEE 754 conversions on the memory representation *)

\* the highest set bit of the natural number v > 0
RECURSIVE TopBit(_)
TopBit(v) == IF v <= 1 THEN 0 ELSE 1 + TopBit(v \div 2)

\* float64 -> float32, round to nearest even (numpy astype / C cast)
F64ToF32(b8) ==
    LET b    == BitsOf(b8)
        sign == b[64]
        e    == BitsToNat(SubSeq(b, 53, 63))
        m    == SubSeq(b, 1, 52)
        \* significand 1.m, most significant bit first (53 bits)
        s    == <<1>> \o Reverse(m)
        e32  == e - 1023 + 127
        \* round the significand to its first nk bits
        Rounded(nk) ==
            LET K     == BitsToNat(Reverse(SubSeq(s, 1, nk)))
                rnd   == s[nk + 1]
                stick == AnySet(SubSeq(s, nk + 2, 53))
                up    == rnd = 1 /\ (stick \/ K % 2 = 1)
            IN  IF up THEN K + 1 ELSE K
        Inf  == 255 * Pow2(23)
        mag  == IF e = 2047
                THEN IF AnySet(m)
                     THEN Inf + Pow2(22) +
                          BitsToNat(SubSeq(m, 30, 51))
                     ELSE Inf
                ELSE IF e = 0 THEN 0
                ELSE IF e32 >= 255 THEN Inf
                ELSE IF e32 >= 1
                     THEN LET r == (e32 - 1) * Pow2(23) + Rounded(24)
                          IN  IF r >= Inf THEN Inf ELSE r
                ELSE IF 23 + e32 >= 0 THEN Rounded(23 + e32)
                ELSE 0
    IN  [i \in 1..4 |-> IF i <= 3 THEN (mag \div Pow2(8 * (i - 1))) % 256
                        ELSE (mag \div Pow2(24)) + 128 * sign]

\* float32 -> float64: exact, but for a signalling NaN, which the
\* conversion returns quieted (top mantissa bit set, payload kept)
F32ToF64(b4) ==
    LET b    == BitsOf(b4)
        sign == b[32]
        e    == BitsToNat(SubSeq(b, 24, 31))
        m    == SubSeq(b, 1, 23)
        mv   == BitsToNat(m)
        p    == TopBit(mv)
        e64  == IF e = 255 THEN 2047
                ELSE IF e = 0 THEN (IF mv = 0 THEN 0 ELSE p - 149 + 1023)
                ELSE e - 127 + 1023
        frac == IF e = 0 /\ mv # 0
                THEN ZeroBits(52 - p) \o SubSeq(m, 1, p)
                ELSE IF e = 255 /\ mv # 0
                THEN ZeroBits(29) \o SubSeq(m, 1, 22) \o <<1>>
                ELSE ZeroBits(29) \o m
    IN  BitsToBytes(frac \o NatToBits(e64, 11) \o <<sign>>)

\* Python/C int (32-bit range) -> float64, exact
IntToF64(v) ==
    LET sign == IF v < 0 THEN 1 ELSE 0
        low  == v = -Pow2(30) - Pow2(30)
        a    == IF low THEN 0 ELSE IF v < 0 THEN -v ELSE v
        p    == IF low THEN 31 ELSE TopBit(a)
        e64  == IF v = 0 THEN 0 ELSE p + 1023
        frac == IF v = 0 \/ low THEN ZeroBits(52)
                ELSE ZeroBits(52 - p) \o NatToBits(a, p)
    IN  BitsToBytes(frac \o NatToBits(e64, 11) \o <<sign>>)

----------------------------------------------------------------------------
(* Type registry *)

\* types_pb2 code -> native scalar type; "object" is the Python builtin
_TF_TO_NP ==
    [tt \in {"DT_HALF", "DT_FLOAT", "DT_DOUBLE", "DT_INT32", "DT_UINT8",
             "DT_UINT16", "DT_UINT32", "DT_UINT64", "DT_INT16", "DT_INT8",
             "DT_STRING", "DT_COMPLEX64", "DT_COMPLEX128", "DT_INT64",
             "DT_BOOL"} |->
        CASE tt = "DT_HALF"       -> "np.float16"
          [] tt = "DT_FLOAT"      -> "np.float32"
          [] tt = "DT_DOUBLE"     -> "np.float64"
          [] tt = "DT_INT32"      -> "np.int32"
          [] tt = "DT_UINT8"      -> "np.uint8"
          [] tt = "DT_UINT16"     -> "np.uint16"
          [] tt = "DT_UINT32"     -> "np.uint32"
          [] tt = "DT_UINT64"     -> "np.uint64"
          [] tt = "DT_INT16"      -> "np.int16"
          [] tt = "DT_INT8"       -> "np.int8"
          [] tt = "DT_STRING"     -> "object"
          [] tt = "DT_COMPLEX64"  -> "np.complex64"
          [] tt = "DT_COMPLEX128" -> "np.complex128"
          [] tt = "DT_INT64"      -> "np.int64"
          [] tt = "DT_BOOL"       -> "np.bool_"]

\* the inverted table, plus the two numpy string scalar types
_NP_TO_TF ==
    [nt \in {_TF_TO_NP[tt] : tt \in DOMAIN _TF_TO_NP} \cup {"np.bytes_", "np.str_"} |->
        IF nt \in {"np.bytes_", "np.str_"} THEN "DT_STRING"
        ELSE CHOOSE tt \in DOMAIN _TF_TO_NP : _TF_TO_NP[tt] = nt]

\* np.dtype(t): the dtype of a scalar type; the builtin object gives dtype('O')
NpDtype(t) ==
    CASE t = "object"        -> "object"
      [] t = "np.float16"    -> "float16"
      [] t = "np.float32"    -> "float32"
      [] t = "np.float64"    -> "float64"
      [] t = "np.int8"       -> "int8"
      [] t = "np.int16"      -> "int16"
      [] t = "np.int32"      -> "int32"
      [] t = "np.int64"      -> "int64"
      [] t = "np.uint8"      -> "uint8"
      [] t = "np.uint16"     -> "uint16"
      [] t = "np.uint32"     -> "uint32"
      [] t = "np.uint64"     -> "uint64"
      [] t = "np.complex64"  -> "complex64"
      [] t = "np.complex128" -> "complex128"
      [] t = "np.bool_"      -> "bool"

\* dtype.type: the numpy scalar type of a dtype; dtype('O').type is
\* numpy.object_, which is not the builtin object
DtypeType(d) ==
    CASE d = "object"     -> "np.object_"
      [] d = "bytes"      -> "np.bytes_"
      [] d = "str"        -> "np.str_"
      [] d = "bool"       -> "np.bool_"
      [] d = "datetime64" -> "np.datetime64"
      [] OTHER            -> CHOOSE t \in DOMAIN _NP_TO_TF \ {"object"} :
                                 NpDtype(t) = d

get_tf_type(np_dtype) ==
    IF DtypeType(np_dtype) \in DOMAIN _NP_TO_TF
    THEN Ok(_NP_TO_TF[DtypeType(np_dtype)])
    ELSE Raise("TypeError", <<"Could not infer tensorflow type for", DtypeType(np_dtype)>>)

get_np_dtype(tf_type) ==
    IF tf_type \in DOMAIN _TF_TO_NP
    THEN Ok(NpDtype(_TF_TO_NP[tf_type]))
    ELSE Raise("TypeError", <<"Could not infer numpy type for", tf_type>>)

\* dtype.itemsize of the fixed-width dtypes
ItemSize(d) ==
    CASE d \in {"bool", "int8", "uint8"}                        -> 1
      [] d \in {"float16", "int16", "uint16"}                   -> 2
      [] d \in {"float32", "int32", "uint32"}                   -> 4
      [] d \in {"float64", "int64", "uint64", "complex64",
                "datetime64"}                                  -> 8
      [] d = "complex128"                                       -> 16

----------------------------------------------------------------------------
(* numpy arrays *)

\* Python objects: bytes (its byte values), str (its characters), int
PyBytes(val) == [py |-> "bytes", val |-> val]

PyStr(chars) == [py |-> "str", chars |-> chars]

PyInt(int) == [py |-> "int", int |-> int]

Array(d, shape, data) == [dtype |-> d, shape |-> shape, elems |-> data]

IsArray(v) == "shape" \in DOMAIN v

\* ndarray.astype between the dtypes make_tensor_proto converts
AsType(a, d) ==
    CASE a.dtype = "float64" /\ d = "float32" ->
            Array(d, a.shape, [i \in 1..Len(a.elems) |-> F64ToF32(a.elems[i])])
      [] a.dtype = "int64" /\ d = "int32" ->
            Array(d, a.shape, [i \in 1..Len(a.elems) |-> SubSeq(a.elems[i], 1, 4)])

\* np.array_equal of an int32 array with an int64 array: same shape and
\* equal values after promotion of the narrower operand
array_equal(a32, a64) ==
    /\ a32.shape = a64.shape
    /\ \A i \in 1..Len(a64.elems) : SignExtend(a32.elems[i], 8) = a64.elems[i]

\* ndarray.tobytes(): the elements' memory in row-major order
ToBytes(a) == Concat(a.elems)

\* iterating a value: an array yields its first-axis items, a bytes object
\* its integers, a str its characters; anything else is not iterable
Iterable(v) ==
    IF IsArray(v) THEN Len(v.shape) >= 1 ELSE v.py \in {"bytes", "str"}

Iter(v) ==
    IF IsArray(v)
    THEN IF Len(v.shape) = 1 THEN v.elems
         ELSE LET sub  == Tail(v.shape)
                  size == Prod(sub)
              IN  [i \in 1..Head(v.shape) |->
                     Array(v.dtype, sub,
                           SubSeq(v.elems, (i - 1) * size + 1, i * size))]
    ELSE IF v.py = "bytes" THEN [i \in 1..Len(v.val) |-> PyInt(v.val[i])]
    ELSE [i \in 1..Len(v.chars) |-> PyStr(<<v.chars[i]>>)]

\* isinstance(s, bytes); numpy.bytes_ is a subclass of bytes
IsBytes(s) == ~IsArray(s) /\ s.py = "bytes"

----------------------------------------------------------------------------
(* TensorProto *)

TensorProto(dtype, shape, kwargs) ==
    [dtype |-> dtype, tensor_shape |-> shape,
     tensor_content |-> IF "tensor_content" \in DOMAIN kwargs
                        THEN kwargs.tensor_content ELSE <<>>,
     float_val  |-> IF "float_val" \in DOMAIN kwargs THEN kwargs.float_val ELSE <<>>,
     double_val |-> IF "double_val" \in DOMAIN kwargs THEN kwargs.double_val ELSE <<>>,
     int_val    |-> IF "int_val" \in DOMAIN kwargs THEN kwargs.int_val ELSE <<>>,
     bool_val   |-> IF "bool_val" \in DOMAIN kwargs THEN kwargs.bool_val ELSE <<>>,
     string_val |-> IF "string_val" \in DOMAIN kwargs THEN kwargs.string_val ELSE <<>>]

\* Downcast without the check that the narrowing loses nothing
DowncastAlways(np_array) ==
    IF np_array.dtype = "float64" THEN AsType(np_array, "float32")
    ELSE IF np_array.dtype = "int64" THEN AsType(np_array, "int32")
    ELSE np_array

\* the precision-preference downcast of make_tensor_proto
Downcast(np_array) ==
    IF np_array.dtype = "float64" THEN AsType(np_array, "float32")
    ELSE IF np_array.dtype = "int64"
         THEN LET downcasted_array == AsType(np_array, "int32")
              IN  IF array_equal(downcasted_array, np_array)
                  THEN downcasted_array ELSE np_array
    ELSE np_array

\* the DT_STRING loops of make_tensor_proto: the collected string_val, or
\* the TypeError of the first item that cannot be iterated or is not bytes
StringVal(np_array) ==
    IF ~Iterable(np_array) THEN Raise("TypeError", <<"iteration over a 0-d array">>)
    ELSE LET vectors == Iter(np_array)
         IN  IF \E i \in 1..Len(vectors) : ~Iterable(vectors[i])
             THEN Raise("TypeError", <<"object is not iterable">>)
             ELSE LET items == Concat([i \in 1..Len(vectors) |-> Iter(vectors[i])])
                  IN  IF \E k \in 1..Len(items) : ~IsBytes(items[k])
                      THEN Raise("TypeError", <<"expect a list of bytes when working with DT_STRING types">>)
                      ELSE Ok(items)

make_tensor_proto(values) ==
    LET np_array == Downcast(values)
        dtype    == get_tf_type(np_array.dtype)
    IN  IF ~dtype.ok THEN dtype
        ELSE IF dtype.val = "DT_STRING"
        THEN LET string_val == StringVal(np_array)
             IN  IF ~string_val.ok THEN string_val
                 ELSE Ok(TensorProto(dtype.val, np_array.shape,
                                     [string_val |-> string_val.val]))
        ELSE Ok(TensorProto(dtype.val, np_array.shape,
                            [tensor_content |-> ToBytes(np_array)]))

----------------------------------------------------------------------------
(* make_ndarray_from_tensor *)

ZeroBytes(w) == [i \in 1..w |-> 0]

\* the element np.zeros gives: zero memory, or the Python int 0 in an
\* object array
ZeroElement(d) ==
    IF d = "object" THEN PyInt(0) ELSE ZeroBytes(ItemSize(d))

\* Zeros that forgets the shape
ZerosFlat(shape, d) ==
    Array(d, <<Prod(shape)>>, [i \in 1..Prod(shape) |-> ZeroElement(d)])

\* np.zeros(shape, dtype)
Zeros(shape, d) ==
    Array(d, shape, [i \in 1..Prod(shape) |-> ZeroElement(d)])

\* np.frombuffer(content, dtype).copy().reshape(shape)
FromBuffer(content, d, shape) ==
    IF d = "object"
    THEN Raise("ValueError", <<"cannot create an OBJECT array from memory buffer">>)
    ELSE IF Len(content) % ItemSize(d) # 0
    THEN Raise("ValueError", <<"buffer size must be a multiple of element size">>)
    ELSE LET w == ItemSize(d)
             n == Len(content) \div w
         IN  IF n # Prod(shape)
             THEN Raise("ValueError", <<"cannot reshape array">>)
             ELSE Ok(Array(d, shape,
                           [i \in 1..n |-> SubSeq(content, (i - 1) * w + 1, i * w)]))

\* TypedValues that reads int_val for every integer type code
TypedValuesAnyInt(t, np_dtype) ==
    CASE t.dtype = "DT_FLOAT" ->
            Ok([i \in 1..Len(t.float_val) |-> F64ToF32(t.float_val[i])])
      [] t.dtype = "DT_DOUBLE" -> Ok(t.double_val)
      [] t.dtype \in {"DT_INT8", "DT_INT16", "DT_INT32", "DT_INT64",
                      "DT_UINT8", "DT_UINT16", "DT_UINT32", "DT_UINT64"} ->
            Ok([i \in 1..Len(t.int_val) |->
                  IntToBytes(t.int_val[i], ItemSize(np_dtype))])
      [] t.dtype = "DT_BOOL" ->
            Ok([i \in 1..Len(t.bool_val) |-> IF t.bool_val[i] THEN <<1>> ELSE <<0>>])
      [] t.dtype = "DT_STRING" -> Ok(t.string_val)
      [] OTHER -> Raise("TypeError", <<"Unsupported tensor type", t.dtype>>)

\* the typed value list make_ndarray_from_tensor reads for a type code,
\* converted to elements of np_dtype (np.fromiter / np.array)
TypedValues(t, np_dtype) ==
    CASE t.dtype = "DT_FLOAT" ->
            Ok([i \in 1..Len(t.float_val) |-> F64ToF32(t.float_val[i])])
      [] t.dtype = "DT_DOUBLE" -> Ok(t.double_val)
      [] t.dtype \in {"DT_INT32", "DT_INT64"} ->
            Ok([i \in 1..Len(t.int_val) |->
                  IntToBytes(t.int_val[i], ItemSize(np_dtype))])
      [] t.dtype = "DT_BOOL" ->
            Ok([i \in 1..Len(t.bool_val) |-> IF t.bool_val[i] THEN <<1>> ELSE <<0>>])
      [] t.dtype = "DT_STRING" -> Ok(t.string_val)
      [] OTHER -> Raise("TypeError", <<"Unsupported tensor type", t.dtype>>)

\* PadEdge that repeats the first value instead of the last
PadEdgeFirst(values, pad) ==
    IF pad < 0 THEN Raise("ValueError", <<"index can't contain negative values">>)
    ELSE Ok(values \o [i \in 1..pad |-> values[1]])

\* PadEdge that cuts a list that is too long instead of failing
PadEdgeClip(values, pad) ==
    IF pad < 0 THEN Ok(SubSeq(values, 1, Len(values) + pad))
    ELSE Ok(values \o [i \in 1..pad |-> values[Len(values)]])

\* np.pad(values, (0, pad), "edge") of a non-empty flat array
PadEdge(values, pad) ==
    IF pad < 0 THEN Raise("ValueError", <<"index can't contain negative values">>)
    ELSE Ok(values \o [i \in 1..pad |-> values[Len(values)]])

make_ndarray_from_tensor(t) ==
    LET shape    == t.tensor_shape
        np_dtype == get_np_dtype(t.dtype)
    IN  IF ~np_dtype.ok THEN np_dtype
        ELSE IF Len(t.tensor_content) # 0
        THEN FromBuffer(t.tensor_content, np_dtype.val, shape)
        ELSE LET values == TypedValues(t, np_dtype.val)
             IN  IF ~values.ok THEN values
                 ELSE IF Len(values.val) = 0 THEN Ok(Zeros(shape, np_dtype.val))
                 ELSE LET num_elements == Prod(shape)
                          padded == IF Len(values.val) # num_elements
                                    THEN PadEdge(values.val, num_elements - Len(values.val))
                                    ELSE values
                      IN  IF ~padded.ok THEN padded
                          ELSE Ok(Array(np_dtype.val, shape, padded.val))

----------------------------------------------------------------------------
(* parse_sample *)

\* the value of a 4-byte two's complement integer
Int32Value(b4) ==
    b4[1] + 256 * b4[2] + 65536 * b4[3]
      + (IF b4[4] >= 128 THEN b4[4] - 256 ELSE b4[4]) * Pow2(24)

\* the conversion numpy applies when an element of dtype from is stored
\* into an array of dtype to (the dtypes parse_sample is given here)
CastElement(e, from, to) ==
    LET d64 == CASE from = "float64" -> e
                 [] from = "float32" -> F32ToF64(e)
                 [] from = "int32"   -> IntToF64(Int32Value(e))
                 [] from = "bool"    -> IntToF64(e[1])
    IN  CASE to = "float64" -> d64
          [] to = "float32" -> IF from = "float32" THEN e ELSE F64ToF32(d64)

\* samples[:, feature_index] = column   (feature_index counted from 1)
SetColumn(samples, feature_index, column) ==
    LET nb_features == samples.shape[2]
    IN  [samples EXCEPT !.elems =
            [k \in 1..Len(samples.elems) |->
                IF (k - 1) % nb_features = feature_index - 1
                THEN column[((k - 1) \div nb_features) + 1]
                ELSE samples.elems[k]]]

check_request_feature_exists(request_inputs, feature_name) ==
    IF feature_name \notin DOMAIN request_inputs
    THEN Raise("PythieServingException", <<feature_name, "not set in the predict request.">>)
    ELSE Ok(None)

check_request_valid_length(request_inputs, feature_name, nb_samples) ==
    IF Len(request_inputs[feature_name].tensor_shape) = 0
    THEN Raise("IndexError", <<"list index out of range">>)
    ELSE IF request_inputs[feature_name].tensor_shape[1] # nb_samples
    THEN Raise("PythieServingException", <<feature_name, "has invalid length.">>)
    ELSE Ok(None)

check_array_shape(nd_array) ==
    IF Len(nd_array.shape) # 2 \/ nd_array.shape[2] # 1
    THEN Raise("PythieServingException", <<"All input vectors should be 1D tensor">>)
    ELSE Ok(None)

\* FillSamples that decodes and checks the shape before the length
RECURSIVE FillSamplesDecodeFirst(_, _, _, _, _)
FillSamplesDecodeFirst(request_inputs, features_names, nb_samples, samples, feature_index) ==
    IF feature_index > Len(features_names) THEN Ok(samples)
    ELSE LET feature_name == features_names[feature_index]
             len_ok       == check_request_valid_length(request_inputs, feature_name, nb_samples)
             nd_array     == make_ndarray_from_tensor(request_inputs[feature_name])
         IN  IF ~nd_array.ok THEN nd_array
             ELSE IF ~check_array_shape(nd_array.val).ok THEN check_array_shape(nd_array.val)
             ELSE IF ~len_ok.ok THEN len_ok
             ELSE IF feature_index > samples.shape[2]
             THEN Raise("IndexError", <<"index is out of bounds for axis 1">>)
             ELSE FillSamplesDecodeFirst(request_inputs, features_names, nb_samples,
                      SetColumn(samples, feature_index,
                          [i \in 1..nb_samples |->
                              CastElement(nd_array.val.elems[i], nd_array.val.dtype,
                                          samples.dtype)]),
                      feature_index + 1)

\* the second loop of parse_sample from feature_index (counted from 1) on
RECURSIVE FillSamples(_, _, _, _, _)
FillSamples(request_inputs, features_names, nb_samples, samples, feature_index) ==
    IF feature_index > Len(features_names) THEN Ok(samples)
    ELSE LET feature_name == features_names[feature_index]
             len_ok       == check_request_valid_length(request_inputs, feature_name, nb_samples)
             nd_array     == make_ndarray_from_tensor(request_inputs[feature_name])
         IN  IF ~len_ok.ok THEN len_ok
             ELSE IF ~nd_array.ok THEN nd_array
             ELSE IF ~check_array_shape(nd_array.val).ok THEN check_array_shape(nd_array.val)
             ELSE IF feature_index > samples.shape[2]
             THEN Raise("IndexError", <<"index is out of bounds for axis 1">>)
             ELSE FillSamples(request_inputs, features_names, nb_samples,
                      SetColumn(samples, feature_index,
                          [i \in 1..nb_samples |->
                              CastElement(nd_array.val.elems[i], nd_array.val.dtype,
                                          samples.dtype)]),
                      feature_index + 1)

\* the first feature name the first loop of parse_sample rejects, if any
FirstMissing(request_inputs, features_names) ==
    LET absent == {i \in 1..Len(features_names) :
                     features_names[i] \notin DOMAIN request_inputs}
    IN  IF absent = {} THEN 0
        ELSE CHOOSE i \in absent : \A j \in absent : i <= j

\* A byte that np.empty has allocated and nothing has written: it holds
\* whatever the heap held there, any of 0..255.  The model keeps it
\* undetermined instead of drawing values for it; it is no integer, so that
\* nothing can compare it with a byte that was written.
Undetermined == "?"

\* np.empty(shape, d): the cells are allocated, none of their bytes written
Empty(shape, d) ==
    Array(d, shape, [k \in 1..Prod(shape) |-> [i \in 1..ItemSize(d) |-> Undetermined]])

parse_sample(request_inputs, features_names, nb_features, samples_dtype) ==
    LET missing == FirstMissing(request_inputs, features_names)
    IN  IF missing # 0
        THEN check_request_feature_exists(request_inputs, features_names[missing])
        ELSE IF Len(features_names) = 0
        THEN Raise("IndexError", <<"list index out of range">>)
        ELSE IF Len(request_inputs[features_names[1]].tensor_shape) = 0
        THEN Raise("IndexError", <<"list index out of range">>)
        ELSE LET nb_samples == request_inputs[features_names[1]].tensor_shape[1]
                 dtype      == IF samples_dtype = "None" THEN "float64" ELSE samples_dtype
                 samples    == Empty(<<nb_samples, nb_features>>, dtype)
             IN  FillSamples(request_inputs, features_names, nb_samples, samples, 1)

----------------------------------------------------------------------------
(* Bounded inputs *)

MaxDim == 2

MaxElems == 4

MaxList == 3

MaxFeatures == 2

\* shapes of rank 0..3 with dimensions 0..MaxDim and at most MaxElems elements
ArrayShapes == {sh \in UNION {[1..k -> 0..MaxDim] : k \in 0..3} : Prod(sh) <= MaxElems}

LowOne(w) == [i \in 1..w |-> IF i = 1 THEN 1 ELSE 0]

HighBit(w) == [i \in 1..w |-> IF i = w THEN 128 ELSE 0]

\* elements the input arrays are filled with: float64 1.0, 16777217.0 (not
\* a float32) and 1e40 (beyond float32); int64 1, -2^31, 2^31 and 2^40
ElementPool(d) ==
    CASE d = "float64" -> {<<0, 0, 0, 0, 0, 0, 240, 63>>, <<0, 0, 0, 16, 0, 0, 112, 65>>,
                           <<165, 92, 195, 241, 41, 99, 61, 72>>}
      [] d = "int64"   -> {LowOne(8), <<0, 0, 0, 128, 255, 255, 255, 255>>,
                           <<0, 0, 0, 128, 0, 0, 0, 0>>, <<0, 0, 0, 0, 0, 1, 0, 0>>}
      [] d = "bool"    -> {<<0>>, <<1>>}
      [] d = "bytes"   -> {PyBytes(<<120>>), PyBytes(<<121, 122>>), PyBytes(<<>>)}
      [] d = "str"     -> {PyStr(<<"x">>), PyStr(<<>>)}
      [] d = "object"  -> {PyBytes(<<120>>), PyInt(1)}
      [] OTHER         -> {ZeroBytes(ItemSize(d)), LowOne(ItemSize(d)), HighBit(ItemSize(d))}

NativeDtypes ==
    {NpDtype(_TF_TO_NP[tt]) : tt \in DOMAIN _TF_TO_NP} \cup {"bytes", "str", "datetime64"}

\* the arrays of a dtype and shape
InputArrays(d, sh) == {Array(d, sh, data) : data \in [1..Prod(sh) -> ElementPool(d)]}

TypeCodes == DOMAIN _TF_TO_NP \cup {"DT_INVALID", "DT_BFLOAT16", "DT_QINT8"}

RegistryInputs ==
    {[fn |-> "get_np_dtype", tf_type |-> tt] : tt \in TypeCodes}
      \cup {[fn |-> "get_tf_type", np_dtype |-> d] : d \in NativeDtypes}

\* values the typed value lists hold: Python floats 1.0 and -2.5
\* (float_val), 1.0 and 0.1 (double_val), ints, bools, bytes
ListPool(field) ==
    CASE field = "float_val"  -> {<<0, 0, 0, 0, 0, 0, 240, 63>>, <<0, 0, 0, 0, 0, 0, 4, 192>>}
      [] field = "double_val" -> {<<0, 0, 0, 0, 0, 0, 240, 63>>,
                                  <<154, 153, 153, 153, 153, 153, 185, 63>>}
      [] field = "int_val"    -> {7, -3}
      [] field = "bool_val"   -> {TRUE, FALSE}
      [] field = "string_val" -> {PyBytes(<<120>>), PyBytes(<<>>)}

ListsUpTo(field, n) == UNION {[1..k -> ListPool(field)] : k \in 0..n}

\* one typed value list set, of length at most n
OneList(n) ==
    {[float_val |-> l] : l \in ListsUpTo("float_val", n)}
      \cup {[double_val |-> l] : l \in ListsUpTo("double_val", n)}
      \cup {[int_val |-> l] : l \in ListsUpTo("int_val", n)}
      \cup {[bool_val |-> l] : l \in ListsUpTo("bool_val", n)}
      \cup {[string_val |-> l] : l \in ListsUpTo("string_val", n)}

\* the width raw contents are cut to for a type code
CodeWidth(tt) ==
    IF tt \in DOMAIN _TF_TO_NP /\ tt # "DT_STRING"
    THEN ItemSize(NpDtype(_TF_TO_NP[tt])) ELSE 1

\* a raw content of k elements (bytes 1, 2, 3, ... ) and some odd bytes
RawContent(tt, k, odd) == [i \in 1..(k * CodeWidth(tt) + odd) |-> i % 256]

\* a tensor with every empty typed value list given one value
FillLists(t) ==
    [t EXCEPT !.float_val  = IF @ = <<>> THEN <<<<0, 0, 0, 0, 0, 0, 240, 63>>>> ELSE @,
              !.double_val = IF @ = <<>> THEN <<<<0, 0, 0, 0, 0, 0, 240, 63>>>> ELSE @,
              !.int_val    = IF @ = <<>> THEN <<7>> ELSE @,
              !.bool_val   = IF @ = <<>> THEN <<TRUE>> ELSE @,
              !.string_val = IF @ = <<>> THEN <<PyBytes(<<120>>)>> ELSE @]

\* tensors without raw bytes: one typed value list of any length, the
\* other lists empty or all set
TypedTensors(tt, sh) ==
    {IF fill THEN FillLists(TensorProto(tt, sh, kw)) ELSE TensorProto(tt, sh, kw) :
        kw \in OneList(MaxList), fill \in BOOLEAN}

\* tensors with raw bytes, the typed value lists empty or all set
RawTensors(tt, sh) ==
    {[(IF fill THEN FillLists(TensorProto(tt, sh, <<>>)) ELSE TensorProto(tt, sh, <<>>))
        EXCEPT !.tensor_content = RawContent(tt, k, odd)] :
        fill \in BOOLEAN, k \in 0..MaxElems, odd \in {0, 1}}

\* shapes of the feature tensors: scalars, vectors, columns and two-column
\* matrices of 0..MaxDim samples
FeatureShapes ==
    {<<>>} \cup {<<d>> : d \in 0..MaxDim} \cup {<<d, e>> : d \in 0..MaxDim, e \in {1, 2}}

\* a feature tensor: DT_INT32 in int_val (one value short of the Shape when
\* short = 1, one value too many for an empty Shape), DT_FLOAT in raw bytes
\* (1.0, -2.5, 1.0, ...), DT_INT8 in int_val
FeatureTensor(tt, sh, short) ==
    LET n == Prod(sh)
        k == IF n = 0 THEN short ELSE n - short
    IN  CASE tt = "DT_INT32" -> TensorProto(tt, sh, [int_val |-> [i \in 1..k |-> 3 * i - 4]])
          [] tt = "DT_INT8"  -> TensorProto(tt, sh, [int_val |-> [i \in 1..n |-> i]])
          [] tt = "DT_FLOAT" ->
                TensorProto(tt, sh,
                    [tensor_content |->
                        Concat([i \in 1..n |-> IF i % 2 = 1 THEN <<0, 0, 128, 63>>
                                               ELSE <<0, 0, 32, 192>>])])

FeatureTensors ==
    {FeatureTensor(tt, sh, short) :
        tt \in {"DT_INT32", "DT_INT8", "DT_FLOAT"}, sh \in FeatureShapes, short \in {0, 1}}

\* requests naming none, one or both of the features "a" and "b"
Requests == UNION {[D -> FeatureTensors] : D \in SUBSET {"a", "b"}}

\* lists of at most MaxFeatures feature names
FeatureNames == UNION {[1..k -> {"a", "b"}] : k \in 0..MaxFeatures}

----------------------------------------------------------------------------
(* Calls *)

MakeTensorProto ==
    /\ pc = "start" /\ input.fn = "make_tensor_proto"
    /\ first' = make_tensor_proto(input.values)
    /\ pc' = "encoded"
    /\ UNCHANGED <<input, second>>

\* make_ndarray_from_tensor applied to the tensor make_tensor_proto returned
DecodeEncoded ==
    /\ pc = "encoded" /\ first.ok
    /\ second' = make_ndarray_from_tensor(first.val)
    /\ pc' = "decoded"
    /\ UNCHANGED <<input, first>>

GetNpDtype ==
    /\ pc = "start" /\ input.fn = "get_np_dtype"
    /\ first' = get_np_dtype(input.tf_type)
    /\ pc' = "np_dtype"
    /\ UNCHANGED <<input, second>>

\* get_tf_type applied to the dtype get_np_dtype returned
GetTfTypeOfResult ==
    /\ pc = "np_dtype" /\ first.ok
    /\ second' = get_tf_type(first.val)
    /\ pc' = "np_dtype_tf_type"
    /\ UNCHANGED <<input, first>>

GetTfType ==
    /\ pc = "start" /\ input.fn = "get_tf_type"
    /\ first' = get_tf_type(input.np_dtype)
    /\ pc' = "tf_type"
    /\ UNCHANGED <<input, second>>

\* get_np_dtype applied to the type code get_tf_type returned
GetNpDtypeOfResult ==
    /\ pc = "tf_type" /\ first.ok
    /\ second' = get_np_dtype(first.val)
    /\ pc' = "tf_type_np_dtype"
    /\ UNCHANGED <<input, first>>

Init ==
    /\ pc = "start"
    /\ \/ input \in RegistryInputs
       \/ \E d \in NativeDtypes, sh \in ArrayShapes : \E a \in InputArrays(d, sh) :
             input = [fn |-> "make_tensor_proto", values |-> a]
    /\ first = None
    /\ second = None

Next ==
    \/ MakeTensorProto
    \/ DecodeEncoded
    \/ GetNpDtype
    \/ GetTfTypeOfResult
    \/ GetTfType
    \/ GetNpDtypeOfResult

Spec == Init /\ [][Next]_vars

MakeNdarrayFromTensor ==
    /\ pc = "start" /\ input.fn = "make_ndarray_from_tensor"
    /\ first' = make_ndarray_from_tensor(input.tensor)
    /\ pc' = "decoded"
    /\ UNCHANGED <<input, second>>

InitDecode ==
    /\ pc = "start"
    /\ \E tt \in TypeCodes, sh \in ArrayShapes :
          \E t \in TypedTensors(tt, sh) \cup RawTensors(tt, sh) :
             input = [fn |-> "make_ndarray_from_tensor", tensor |-> t]
    /\ first = None
    /\ second = None

NextDecode == MakeNdarrayFromTensor

SpecDecode == InitDecode /\ [][NextDecode]_vars

ParseSample ==
    /\ pc = "start" /\ input.fn = "parse_sample"
    /\ first' = parse_sample(input.request_inputs, input.features_names,
                             input.nb_features, input.samples_dtype)
    /\ pc' = "parsed"
    /\ UNCHANGED <<input, second>>

InitParse ==
    /\ pc = "start"
    /\ \E r \in Requests, names \in FeatureNames, nf \in 0..MaxFeatures,
          sd \in {"None", "float32"} :
             input = [fn |-> "parse_sample", request_inputs |-> r,
                      features_names |-> names, nb_features |-> nf, samples_dtype |-> sd]
    /\ first = None
    /\ second = None

NextParse == ParseSample

SpecParse == InitParse /\ [][NextParse]_vars

----------------------------------------------------------------------------
(* Properties of make_tensor_proto and of the registry (Spec) *)

Encoding == input.fn = "make_tensor_proto" /\ pc \in {"encoded", "decoded"}

\* a 64-bit two's complement integer lies in the signed 32-bit range: its
\* high word is the sign of its low word
InInt32Range(b8) ==
    \/ Int32Value(SubSeq(b8, 5, 8)) = 0 /\ b8[4] < 128
    \/ Int32Value(SubSeq(b8, 5, 8)) = -1 /\ b8[4] >= 128

AllInInt32Range(a) == \A i \in 1..Len(a.elems) : InInt32Range(a.elems[i])

\* C1: for every array x of a type with a LogicalType (byte-string arrays
\* included), make_ndarray_from_tensor(make_tensor_proto(x)) succeeds and
\* has the shape and the elements of x after its downcast.
C1RoundTrip ==
    (/\ Encoding
     /\ input.values.dtype \in NativeDtypes \ {"str", "datetime64", "object"}
     /\ Len(input.values.shape) \in 1..3)
    => (/\ first.ok
        /\ (pc = "decoded" =>
               (/\ second.ok
                /\ second.val.shape = Downcast(input.values).shape
                /\ second.val.elems = Downcast(input.values).elems)))

\* C2: a float64 array is always encoded as DT_FLOAT; an int64 array is
\* encoded as DT_INT32 exactly when every element is in the signed 32-bit
\* range, and otherwise as DT_INT64 with every original byte kept.
C2Narrowing ==
    Encoding =>
        /\ input.values.dtype = "float64" => first.ok /\ first.val.dtype = "DT_FLOAT"
        /\ input.values.dtype = "int64" =>
              /\ first.ok
              /\ first.val.dtype = "DT_INT32" <=> AllInInt32Range(input.values)
              /\ ~AllInInt32Range(input.values) =>
                    /\ first.val.dtype = "DT_INT64"
                    /\ first.val.tensor_shape = input.values.shape
                    /\ Len(first.val.tensor_content) = 8 * Len(input.values.elems)
                    /\ \A i \in 1..Len(input.values.elems) : \A k \in 1..8 :
                          first.val.tensor_content[8 * (i - 1) + k] = input.values.elems[i][k]

\* an int64 array mixing elements inside and outside the 32-bit range was
\* encoded, and a float64 array was
C2Witness ==
    /\ Encoding /\ input.values.dtype = "int64"
    /\ \E i, j \in 1..Len(input.values.elems) :
          InInt32Range(input.values.elems[i]) /\ ~InInt32Range(input.values.elems[j])
    /\ first.ok /\ first.val.dtype = "DT_INT64"

\* C3: when the resolved LogicalType is byte-string, an input (of any rank)
\* whose elements are all byte-strings is encoded as the string_val list of
\* those elements in row-major order with no raw bytes, and any other input
\* fails with TypeError.
C3StringPayload ==
    (/\ Encoding
     /\ get_tf_type(Downcast(input.values).dtype) = Ok("DT_STRING")
     /\ Len(input.values.shape) >= 1)
    => IF \A i \in 1..Len(input.values.elems) : IsBytes(input.values.elems[i])
       THEN /\ first.ok
            /\ first.val.string_val = input.values.elems
            /\ first.val.tensor_content = <<>>
       ELSE ~first.ok /\ first.err = "TypeError"

\* C8: get_tf_type(get_np_dtype(t)) = t for every t of the table,
\* get_np_dtype(get_tf_type(n)) = n for every native dtype but the string
\* variants, and a type without entry raises TypeError.
C8RegistryRoundTrip ==
    /\ input.fn = "get_np_dtype" /\ pc # "start" =>
          IF input.tf_type \in DOMAIN _TF_TO_NP
          THEN first.ok /\ (pc = "np_dtype_tf_type" => second = Ok(input.tf_type))
          ELSE ~first.ok /\ first.err = "TypeError"
    /\ input.fn = "get_tf_type" /\ pc # "start" =>
          IF first.ok
          THEN pc = "tf_type_np_dtype" /\ input.np_dtype \notin {"bytes", "str"}
                  => second = Ok(input.np_dtype)
          ELSE first.err = "TypeError"

----------------------------------------------------------------------------
(* Properties of make_ndarray_from_tensor (SpecDecode) *)

Decoded == input.fn = "make_ndarray_from_tensor" /\ pc = "decoded"

\* the LogicalTypes with a typed value list, and the list of each
ListCodes == {"DT_FLOAT", "DT_DOUBLE", "DT_INT32", "DT_INT64", "DT_BOOL", "DT_STRING"}

IntegerCodes == {"DT_INT8", "DT_INT16", "DT_INT32", "DT_INT64",
                 "DT_UINT8", "DT_UINT16", "DT_UINT32", "DT_UINT64"}

ListOf(t) ==
    CASE t.dtype = "DT_FLOAT"  -> t.float_val
      [] t.dtype = "DT_DOUBLE" -> t.double_val
      [] t.dtype = "DT_BOOL"   -> t.bool_val
      [] t.dtype = "DT_STRING" -> t.string_val
      [] t.dtype \in IntegerCodes -> t.int_val

\* the tensor decodes from a typed value list: no raw bytes, a type with a list
FromList(t) == t.tensor_content = <<>> /\ t.dtype \in ListCodes

\* numpy's element == value, for an element of dtype d and a Python value
ValueEquals(e, d, v) ==
    CASE d = "float32" -> F32ToF64(e) = v
      [] d = "float64" -> e = v
      [] d = "int32"   -> Int32Value(e) = v
      [] d = "int64"   -> InInt32Range(e) /\ Int32Value(SubSeq(e, 1, 4)) = v
      [] d = "bool"    -> e = (IF v THEN <<1>> ELSE <<0>>)
      [] d = "object"  -> e = v

IsZeroElement(e, d) ==
    IF d = "object" THEN e = PyInt(0)
    ELSE Len(e) = ItemSize(d) /\ \A k \in 1..Len(e) : e[k] = 0

Unsupported(r) == ~r.ok /\ r.err = "TypeError" /\ r.msg[1] = "Unsupported tensor type"

\* C4: a typed value list of length k, 0 < k <= n = product of the Shape,
\* decodes to an array of the declared Shape whose row-major element i is
\* list[i] for i <= k and list[k] (the last value) for k < i <= n.
C4EdgePadding ==
    Decoded /\ FromList(input.tensor) =>
        LET t == input.tensor
            l == ListOf(t)
            k == Len(l)
            n == Prod(t.tensor_shape)
        IN  0 < k /\ k <= n =>
               /\ first.ok
               /\ first.val.shape = t.tensor_shape
               /\ Len(first.val.elems) = n
               /\ \A i \in 1..n :
                     ValueEquals(first.val.elems[i], first.val.dtype,
                                 l[IF i <= k THEN i ELSE k])

\* the decode of Shape [2, 2] with an integer list of three values, whose
\* last two differ, returned
C4Witness ==
    /\ Decoded /\ FromList(input.tensor)
    /\ input.tensor.dtype = "DT_INT32" /\ input.tensor.tensor_shape = <<2, 2>>
    /\ Len(input.tensor.int_val) = 3 /\ input.tensor.int_val[2] # input.tensor.int_val[3]
    /\ first.ok

\* C5: with no raw bytes and an empty selected value list the decode
\* succeeds with an all-zero array of the declared Shape and resolved dtype.
C5EmptyListZeros ==
    Decoded /\ FromList(input.tensor) /\ ListOf(input.tensor) = <<>> =>
        /\ first.ok
        /\ first.val.shape = input.tensor.tensor_shape
        /\ first.val.dtype = NpDtype(_TF_TO_NP[input.tensor.dtype])
        /\ Len(first.val.elems) = Prod(input.tensor.tensor_shape)
        /\ \A i \in 1..Len(first.val.elems) :
              IsZeroElement(first.val.elems[i], first.val.dtype)

\* an empty float list was decoded into a Shape of four elements
C5Witness ==
    /\ Decoded /\ FromList(input.tensor) /\ ListOf(input.tensor) = <<>>
    /\ input.tensor.dtype = "DT_FLOAT" /\ input.tensor.tensor_shape = <<2, 2>>
    /\ first.ok /\ Len(first.val.elems) = 4

\* C9 as stated: every successful decode has the declared Shape, and a
\* typed value list of any length is tolerated rather than rejected.
C9AnyLengthTolerated ==
    Decoded =>
        /\ first.ok => first.val.shape = input.tensor.tensor_shape
        /\ FromList(input.tensor) => first.ok

\* C9 amended: every successful decode has the declared Shape and as many
\* elements as the Shape's product; a typed value list is tolerated when it
\* is empty or not longer than the element count, and a longer one is
\* rejected with ValueError; raw bytes whose length is not element count x
\* width are rejected.
C9DeclaredShape ==
    Decoded =>
        LET t == input.tensor
            n == Prod(t.tensor_shape)
        IN  /\ first.ok => /\ first.val.shape = t.tensor_shape
                           /\ Len(first.val.elems) = n
            /\ FromList(t) /\ Len(ListOf(t)) <= n => first.ok
            /\ FromList(t) /\ Len(ListOf(t)) = 0 => first.ok
            /\ FromList(t) /\ Len(ListOf(t)) > n /\ Len(ListOf(t)) > 0 =>
                  ~first.ok /\ first.err = "ValueError"
            /\ (t.tensor_content # <<>> /\ t.dtype \in DOMAIN _TF_TO_NP
                   /\ Len(t.tensor_content) # n * CodeWidth(t.dtype)) => ~first.ok

\* a typed value list longer than the declared element count was rejected
C9Witness ==
    /\ Decoded /\ FromList(input.tensor)
    /\ Len(ListOf(input.tensor)) > Prod(input.tensor.tensor_shape)
    /\ Prod(input.tensor.tensor_shape) > 0
    /\ ~first.ok

\* the tensor without its typed value lists
ClearLists(t) ==
    [t EXCEPT !.float_val = <<>>, !.double_val = <<>>, !.int_val = <<>>,
              !.bool_val = <<>>, !.string_val = <<>>]

\* the tensor with only the list its type selects
OnlySelected(t) ==
    CASE t.dtype = "DT_FLOAT"  -> [ClearLists(t) EXCEPT !.float_val = t.float_val]
      [] t.dtype = "DT_DOUBLE" -> [ClearLists(t) EXCEPT !.double_val = t.double_val]
      [] t.dtype = "DT_BOOL"   -> [ClearLists(t) EXCEPT !.bool_val = t.bool_val]
      [] t.dtype = "DT_STRING" -> [ClearLists(t) EXCEPT !.string_val = t.string_val]
      [] t.dtype \in IntegerCodes -> [ClearLists(t) EXCEPT !.int_val = t.int_val]
      [] OTHER -> ClearLists(t)

\* the dispatch of the decode on a set of integer codes that share int_val
Dispatch(intCodes) ==
    Decoded /\ input.tensor.dtype \in DOMAIN _TF_TO_NP =>
        LET t == input.tensor
        IN  /\ t.tensor_content # <<>> => first = make_ndarray_from_tensor(ClearLists(t))
            /\ t.tensor_content = <<>> =>
                  /\ first = make_ndarray_from_tensor(OnlySelected(t))
                  /\ Unsupported(first) <=>
                        t.dtype \notin {"DT_FLOAT", "DT_DOUBLE", "DT_BOOL", "DT_STRING"}
                                          \cup intCodes
                  /\ first.ok /\ Len(first.val.elems) > 0 /\ Len(ListOf(t)) > 0 =>
                        ValueEquals(first.val.elems[1], first.val.dtype, ListOf(t)[1])

\* C10 as stated: raw bytes alone decide the result; without raw bytes the
\* list of the type is read, int_val for every integer type of any width,
\* and every other type fails as unsupported.
C10EveryIntegerWidth == Dispatch(IntegerCodes)

\* C10 amended: as stated, but int_val is read for DT_INT32 and DT_INT64
\* only; the 8- and 16-bit and the unsigned integer types fail as
\* unsupported like the other types without a list.
C10Dispatch == Dispatch({"DT_INT32", "DT_INT64"})

\* an 8-bit integer tensor with a value in int_val and no raw bytes was
\* rejected as unsupported, also one declaring no element
C10Witness ==
    /\ Decoded /\ input.tensor.dtype = "DT_INT8" /\ input.tensor.tensor_content = <<>>
    /\ Len(input.tensor.int_val) > 0
    /\ Prod(input.tensor.tensor_shape) = 0
    /\ Unsupported(first)

----------------------------------------------------------------------------
(* Properties of parse_sample (SpecParse) *)

Parsed == input.fn = "parse_sample" /\ pc = "parsed"

\* cell (i, j) of a matrix, counted from 1
Cell(m, i, j) == m.elems[(i - 1) * m.shape[2] + j]

\* the decode of the feature named features_names[j]
DecodedFeature(j) ==
    make_ndarray_from_tensor(input.request_inputs[input.features_names[j]])

\* C6: a returned matrix has shape (nb_samples, nb_features) and every one
\* of its nb_features columns holds the decoded values of the feature of
\* that index, in sample order; no column is left unwritten.
C6FullyPopulated ==
    (Parsed /\ first.ok) =>
        LET nb_samples == input.request_inputs[input.features_names[1]].tensor_shape[1]
        IN  /\ first.val.shape = <<nb_samples, input.nb_features>>
            /\ \A j \in 1..input.nb_features : \A i \in 1..nb_samples :
                  /\ j <= Len(input.features_names)
                  /\ Cell(first.val, i, j) =
                        CastElement(DecodedFeature(j).val.elems[i],
                                    DecodedFeature(j).val.dtype, first.val.dtype)

Absent == {i \in 1..Len(input.features_names) :
             input.features_names[i] \notin DOMAIN input.request_inputs}

NbSamples == input.request_inputs[input.features_names[1]].tensor_shape[1]

FeatureShape(i) == input.request_inputs[input.features_names[i]].tensor_shape

\* feature i has a first dimension, and it differs from nb_samples
LengthBad(i) == Len(FeatureShape(i)) >= 1 /\ FeatureShape(i)[1] # NbSamples

\* feature i has the right length and decodes, but not to a column
ShapeBad(i) ==
    /\ Len(FeatureShape(i)) >= 1 /\ FeatureShape(i)[1] = NbSamples
    /\ DecodedFeature(i).ok
    /\ ~(Len(DecodedFeature(i).val.shape) = 2 /\ DecodedFeature(i).val.shape[2] = 1)

\* feature i passes every check and its column is stored
Passes(i) ==
    /\ i <= input.nb_features
    /\ Len(FeatureShape(i)) >= 1 /\ FeatureShape(i)[1] = NbSamples
    /\ DecodedFeature(i).ok
    /\ Len(DecodedFeature(i).val.shape) = 2 /\ DecodedFeature(i).val.shape[2] = 1

InvalidLength(name) == Raise("PythieServingException", <<name, "has invalid length.">>)

InvalidShape == Raise("PythieServingException", <<"All input vectors should be 1D tensor">>)

MissingFeature(name) ==
    Raise("PythieServingException", <<name, "not set in the predict request.">>)

\* C7: an absent name fails with MissingFeature of the first absent name,
\* whatever the tensors; otherwise the first feature, in features_names
\* order, that fails a check decides: InvalidLength naming it when its
\* first dimension differs from nb_samples (before its decode), InvalidShape
\* when it decodes to something else than a column; and a matrix is
\* returned only when every feature passed every check.
C7FailureOrder ==
    Parsed =>
        IF Absent # {}
        THEN first = MissingFeature(
                 input.features_names[CHOOSE i \in Absent : \A j \in Absent : i <= j])
        ELSE (Len(input.features_names) > 0 /\ Len(FeatureShape(1)) >= 1) =>
            /\ \A i \in 1..Len(input.features_names) :
                  /\ (LengthBad(i) /\ \A j \in 1..(i - 1) : Passes(j))
                        => first = InvalidLength(input.features_names[i])
                  /\ (ShapeBad(i) /\ \A j \in 1..(i - 1) : Passes(j))
                        => first = InvalidShape
            /\ first.ok => \A i \in 1..Len(input.features_names) : Passes(i)
            /\ (~first.ok /\ first.err = "PythieServingException") =>
                  \E i \in 1..Len(input.features_names) :
                      /\ \/ LengthBad(i) /\ first = InvalidLength(input.features_names[i])
                         \/ first = InvalidShape /\ ShapeBad(i)
                      /\ \A j \in 1..(i - 1) : Passes(j)

\* the second feature has both a wrong length and a tensor that is no
\* column, the first one passes, and InvalidLength of the second is raised
C7Witness ==
    /\ Parsed /\ Absent = {} /\ Len(input.features_names) = 2
    /\ Len(FeatureShape(1)) >= 1 /\ Passes(1)
    /\ LengthBad(2) /\ Len(FeatureShape(2)) = 1
    /\ first = InvalidLength(input.features_names[2])
====
